---------------------------- MODULE Spec2Model ----------------------------
(***************************************************************************)
(* Stock Item Panel (src/pages/liveTrading/tabs/item/index.tsx).           *)
(*                                                                         *)
(* The panel keeps a table view (filter -> sort -> paginate), per-status   *)
(* counts and three summary segments consistent with the item collection   *)
(* it reads from the stock context, and issues create / update / sell /    *)
(* delete requests through four mutations.                                 *)
(*                                                                         *)
(* Conventions of the model:                                               *)
(*   - an optional value (undefined | v) is the set {} or {v};             *)
(*   - a string that the code inspects (item_name, query) is the sequence  *)
(*     of its UTF-16 code units;                                           *)
(*   - a React state setter followed by the effect that depends on the     *)
(*     state it sets is one atomic action.                                 *)
(***************************************************************************)
EXTENDS Integers, Sequences, FiniteSets, Bags, TLC

VARIABLES
    items,          \* useStockContextContext().items : {} (undefined) or {<<item, ...>>}
    page,           \* useState(1)
    pageSize,       \* useState(pageSizes[4])
    rows,           \* useState<StockItem[]>([])
    totalRecords,   \* useState<number>(0)
    sortStatus,     \* useState({columnAccessor: 'name', direction: 'desc'})
    query,          \* useState<string>("")
    filterStatus,   \* useState<StockStatus | undefined>(undefined)
    statusCount,    \* useState<{[key: string]: number}>({})
    segments,       \* useState<{label, count, part, color}[]>([])
    inflight,       \* remote calls issued through the four mutations and not yet settled
    called,         \* the remote calls the last handler run issued (api.stock.item.*)
    notified,       \* the notifications the last handler run showed (notifications.show)
    modal           \* the modal opened through modals.open / modals.openContextModal

vars == <<items, page, pageSize, rows, totalRecords, sortStatus, query,
          filterStatus, statusCount, segments, inflight, called, notified,
          modal>>

viewVars == <<page, pageSize, rows, totalRecords, sortStatus, query,
              filterStatus, statusCount>>

-----------------------------------------------------------------------------
(* Bounds of the model *)

\* longest item collection the view specification hands to the panel
MaxItems == 7
\* longest item collection the mutation specification hands to the panel
MaxMutationItems == 2
\* largest page number the table's page-change event carries
MaxPage == 2
\* how many of the table's page sizes (in the order offered) get selected
MaxPageSizeChoice == 1
\* largest value entered in a prompt
MaxPromptValue == 1

-----------------------------------------------------------------------------
(* Optional values and JavaScript truthiness *)

None == {}
Some(v) == {v}
Get(o) == CHOOSE v \in o : TRUE

\* x || 0
OrZero(o) == IF o = None THEN 0 ELSE Get(o)

\* !x for an optional number: undefined and 0 are falsy
Falsy(o) == o = None \/ o = Some(0)

Min(a, b) == IF a < b THEN a ELSE b

-----------------------------------------------------------------------------
(* Strings as sequences of code units *)

\* String.prototype.toLowerCase on the ASCII range
toLowerCase(s) == [i \in 1..Len(s) |-> IF s[i] \in 65..90 THEN s[i] + 32 ELSE s[i]]

\* String.prototype.includes
includes(s, q) ==
    \E k \in 0..(Len(s) - Len(q)) : \A j \in 1..Len(q) : s[k + j] = q[j]

\* "Vec", "Bra", "bve", "Ave"
NameVec == <<86, 101, 99>>
NameBra == <<66, 114, 97>>
NameBve == <<98, 118, 101>>
NameAve == <<65, 118, 101>>

\* the texts typed in the search field: "", "vec", "VE"
Queries == {<<>>, <<118, 101, 99>>, <<86, 69>>}

-----------------------------------------------------------------------------
(* The item collection supplied by the stock context *)

\* enum StockStatus of @api/types
StockStatus == {"pending", "live", "inactive"}

\* filterStatus === undefined
Unset == "undefined"

\* the stock items the context is populated from; id is given by position
Pool == <<
    [item_name |-> NameVec, status |-> "live",     bought |-> Some(10),
     list_price |-> Some(20), owned |-> 1, minimum_price |-> None,
     is_hidden |-> FALSE, saved |-> TRUE],
    [item_name |-> NameBra, status |-> "pending",  bought |-> Some(30),
     list_price |-> None,     owned |-> 2, minimum_price |-> Some(3),
     is_hidden |-> TRUE,  saved |-> TRUE],
    [item_name |-> NameBve, status |-> "live",     bought |-> None,
     list_price |-> Some(0),  owned |-> 1, minimum_price |-> Some(7),
     is_hidden |-> FALSE, saved |-> TRUE],
    [item_name |-> NameAve, status |-> "inactive", bought |-> Some(10),
     list_price |-> Some(4),  owned |-> 3, minimum_price |-> Some(5),
     is_hidden |-> FALSE, saved |-> FALSE] >>

\* a StockItem: the pool entry t at position i of a collection (id 0 when unsaved)
StockItem(t, i) ==
    [item_name |-> t.item_name, status |-> t.status, bought |-> t.bought,
     list_price |-> t.list_price, owned |-> t.owned,
     minimum_price |-> t.minimum_price, is_hidden |-> t.is_hidden,
     id |-> IF t.saved THEN i ELSE 0]

\* the collection of len items that walks the pool cyclically from start
Collection(len, start) ==
    [i \in 1..len |-> StockItem(Pool[((start + i - 1) % Len(Pool)) + 1], i)]

Collections(maxLen) ==
    {Collection(len, start) : len \in 0..maxLen, start \in 0..(Len(Pool) - 1)}

-----------------------------------------------------------------------------
(* @utils: sortArray and paginate *)

\* the value of a field as a sequence of integers (absent field: empty)
FieldKey(item, field) ==
    CASE field = "item_name" -> item.item_name
      [] field = "bought"    -> IF item.bought = None THEN <<>> ELSE <<Get(item.bought)>>
      [] OTHER               -> <<>>

\* lexicographic order on sequences of integers
RECURSIVE LexLess(_, _)
LexLess(a, b) ==
    IF b = <<>> THEN FALSE
    ELSE IF a = <<>> THEN TRUE
    ELSE IF Head(a) # Head(b) THEN Head(a) < Head(b)
    ELSE LexLess(Tail(a), Tail(b))

\* x must come before y under the sort specification
Before(x, y, sortBy) ==
    IF sortBy.direction = "asc"
    THEN LexLess(FieldKey(x, sortBy.field), FieldKey(y, sortBy.field))
    ELSE LexLess(FieldKey(y, sortBy.field), FieldKey(x, sortBy.field))

\* x inserted into the sorted sequence s behind every element it does not precede
RECURSIVE Insert(_, _, _)
Insert(x, s, sortBy) ==
    IF s = <<>> THEN <<x>>
    ELSE IF Before(x, Head(s), sortBy) THEN <<x>> \o s
    ELSE <<Head(s)>> \o Insert(x, Tail(s), sortBy)

\* sortArray([{field, direction}], array): a stable sort
RECURSIVE sortArray(_, _)
sortArray(sortBy, array) ==
    IF array = <<>> THEN <<>>
    ELSE Insert(array[Len(array)],
                sortArray(sortBy, SubSeq(array, 1, Len(array) - 1)), sortBy)

\* paginate(array, page, pageSize): array.slice((page - 1) * pageSize, page * pageSize)
paginate(array, p, ps) ==
    SubSeq(array, (p - 1) * ps + 1, Min(p * ps, Len(array)))

-----------------------------------------------------------------------------
(* View pipeline: the "Update Database Rows" effect *)

pageSizes == <<5, 10, 15, 20, 25, 30, 50, 100>>

\* the columns declared sortable
SortableColumns == {"item_name", "bought"}

SortSpecs == [direction : {"asc", "desc"}, columnAccessor : SortableColumns]

\* FilterItems with the query compared as typed
FilterItemsCaseSensitive(its, q, fs) ==
    LET byQuery  == IF q # <<>>
                    THEN SelectSeq(its, LAMBDA item :
                            includes(toLowerCase(item.item_name), q))
                    ELSE its
        byStatus == IF fs # Unset
                    THEN SelectSeq(byQuery, LAMBDA item : item.status = fs)
                    ELSE byQuery
    IN  byStatus

\* lines 61-65: the query filter, then the status filter
FilterItems(its, q, fs) ==
    LET byQuery  == IF q # <<>>
                    THEN SelectSeq(its, LAMBDA item :
                            includes(toLowerCase(item.item_name), toLowerCase(q)))
                    ELSE its
        byStatus == IF fs # Unset
                    THEN SelectSeq(byQuery, LAMBDA item : item.status = fs)
                    ELSE byQuery
    IN  byStatus

\* lines 56-59: one entry per status, counted over the unfiltered collection
CountStatus(its) ==
    [status \in StockStatus |->
        Len(SelectSeq(its, LAMBDA item : item.status = status))]

\* UpdateDatabaseRows with the page cut out before the sort
UpdateDatabaseRowsSortsPage(its, q, fs, ss, p, ps) ==
    LET rivensFilter == FilterItems(its, q, fs)
    IN  [rows         |-> sortArray([field |-> ss.columnAccessor,
                                     direction |-> ss.direction],
                                    paginate(rivensFilter, p, ps)),
         totalRecords |-> Len(rivensFilter),
         statusCount  |-> CountStatus(its)]

\* UpdateDatabaseRows with the statuses counted after the filters
UpdateDatabaseRowsCountsFiltered(its, q, fs, ss, p, ps) ==
    LET rivensFilter == FilterItems(its, q, fs)
        sorted == sortArray([field |-> ss.columnAccessor,
                             direction |-> ss.direction], rivensFilter)
    IN  [rows         |-> paginate(sorted, p, ps),
         totalRecords |-> Len(rivensFilter),
         statusCount  |-> CountStatus(rivensFilter)]

\* lines 54-76: what the effect sets, as [statusCount, totalRecords, rows]
UpdateDatabaseRows(its, q, fs, ss, p, ps) ==
    LET rivensFilter == FilterItems(its, q, fs)
        sorted == sortArray([field |-> ss.columnAccessor,
                             direction |-> ss.direction], rivensFilter)
    IN  [rows         |-> paginate(sorted, p, ps),
         totalRecords |-> Len(rivensFilter),
         statusCount  |-> CountStatus(its)]

\* the effect, run with the state the render that scheduled it has committed
RowsEffect ==
    IF items' = None
    THEN UNCHANGED <<statusCount, totalRecords, rows>>
    ELSE LET r == UpdateDatabaseRows(Get(items'), query', filterStatus',
                                     sortStatus', page', pageSize')
         IN  /\ statusCount' = r.statusCount
             /\ totalRecords' = r.totalRecords
             /\ rows' = r.rows

-----------------------------------------------------------------------------
(* Aggregator: the "Calculate Stats" effect *)

RECURSIVE SumSeq(_)
SumSeq(s) == IF s = <<>> THEN 0 ELSE Head(s) + SumSeq(Tail(s))

\* (count / totalCount) * 100 as the exact fraction num / den (den = 0: NaN)
Share(count, totalCount) == [num |-> count * 100, den |-> totalCount]

\* CalculateStats with the profit left out of the total
CalculateStatsTotalWithoutProfit(its) ==
    LET totalPurchasePrice ==
            SumSeq([i \in 1..Len(its) |-> OrZero(its[i].bought) * its[i].owned])
        totalListedPrice ==
            SumSeq([i \in 1..Len(its) |-> OrZero(its[i].list_price) * its[i].owned])
        totalProfit == IF totalListedPrice > 0
                       THEN totalListedPrice - totalPurchasePrice ELSE 0
        totalCount == totalPurchasePrice + totalListedPrice
    IN  << [count |-> totalPurchasePrice, label |-> "bought",
            part |-> Share(totalPurchasePrice, totalCount)],
           [count |-> totalListedPrice, label |-> "listed",
            part |-> Share(totalListedPrice, totalCount)],
           [count |-> totalProfit, label |-> "profit",
            part |-> Share(totalProfit, totalCount)] >>

\* lines 84-99
CalculateStats(its) ==
    LET totalPurchasePrice ==
            SumSeq([i \in 1..Len(its) |-> OrZero(its[i].bought) * its[i].owned])
        totalListedPrice ==
            SumSeq([i \in 1..Len(its) |-> OrZero(its[i].list_price) * its[i].owned])
        totalProfit == IF totalListedPrice > 0
                       THEN totalListedPrice - totalPurchasePrice ELSE 0
        totalCount == totalPurchasePrice + totalListedPrice + totalProfit
    IN  << [count |-> totalPurchasePrice, label |-> "bought",
            part |-> Share(totalPurchasePrice, totalCount)],
           [count |-> totalListedPrice, label |-> "listed",
            part |-> Share(totalListedPrice, totalCount)],
           [count |-> totalProfit, label |-> "profit",
            part |-> Share(totalProfit, totalCount)] >>

StatsEffect ==
    IF items' = None THEN UNCHANGED segments
    ELSE segments' = CalculateStats(Get(items'))

-----------------------------------------------------------------------------
(* Initial state: the component as constructed, items not yet supplied *)

Init ==
    /\ items = None
    /\ page = 1
    /\ pageSize = pageSizes[5]
    /\ rows = <<>>
    /\ totalRecords = 0
    /\ sortStatus = [direction |-> "desc", columnAccessor |-> "name"]
    /\ query = <<>>
    /\ filterStatus = Unset
    /\ statusCount = <<>>
    /\ segments = <<>>
    /\ inflight = <<>>
    /\ called = <<>>
    /\ notified = <<>>
    /\ modal = [kind |-> "none"]

-----------------------------------------------------------------------------
(* View events *)

\* a handler run that issues no remote call, shows no notification and leaves
\* the mutations and the modal alone
Quiet ==
    /\ called' = <<>>
    /\ notified' = <<>>
    /\ UNCHANGED <<inflight, modal>>

\* the stock context supplies a new item collection; both effects run
ItemsChanged ==
    \E c \in Collections(MaxItems) :
        /\ items' = Some(c)
        /\ UNCHANGED <<page, pageSize, sortStatus, query, filterStatus>>
        /\ RowsEffect
        /\ StatsEffect
        /\ Quiet

\* onPageChange={(p) => setPage(p)}
SetPage ==
    \E p \in 1..MaxPage :
        /\ page' = p
        /\ UNCHANGED <<items, pageSize, sortStatus, query, filterStatus, segments>>
        /\ RowsEffect
        /\ Quiet

\* onRecordsPerPageChange={setPageSize}
SetPageSize ==
    \E n \in 1..Min(MaxPageSizeChoice, Len(pageSizes)) :
        /\ pageSize' = pageSizes[n]
        /\ UNCHANGED <<items, page, sortStatus, query, filterStatus, segments>>
        /\ RowsEffect
        /\ Quiet

\* onSortStatusChange={setSortStatus}
SetSortStatus ==
    \E s \in SortSpecs :
        /\ sortStatus' = s
        /\ UNCHANGED <<items, page, pageSize, query, filterStatus, segments>>
        /\ RowsEffect
        /\ Quiet

\* SetQuery that also goes back to the first page
SetQueryResetsPage ==
    \E text \in Queries :
        /\ query' = text
        /\ page' = 1
        /\ UNCHANGED <<items, pageSize, sortStatus, filterStatus, segments>>
        /\ RowsEffect
        /\ Quiet

\* <SearchField onChange={(text) => setQuery(text)} />
SetQuery ==
    \E text \in Queries :
        /\ query' = text
        /\ UNCHANGED <<items, page, pageSize, sortStatus, filterStatus, segments>>
        /\ RowsEffect
        /\ Quiet

\* ToggleFilterStatus that applies the clicked status again
ToggleAlwaysSets(s, status) == status

\* setFilterStatus(s => s === status ? undefined : status)
ToggleFilterStatus(s, status) == IF s = status THEN Unset ELSE status

\* <ColorInfo onClick=...> of one status
ClickStatus(status) ==
    /\ filterStatus' = ToggleFilterStatus(filterStatus, status)
    /\ UNCHANGED <<items, page, pageSize, sortStatus, query, segments>>
    /\ RowsEffect
    /\ Quiet

ClickAnyStatus == \E status \in StockStatus : ClickStatus(status)

NextView ==
    \/ ItemsChanged
    \/ SetPage
    \/ SetPageSize
    \/ SetSortStatus
    \/ SetQuery
    \/ ClickAnyStatus

\* the view pipeline and the aggregator
Spec == Init /\ [][NextView]_vars

-----------------------------------------------------------------------------
(* Mutation coordinator: the four mutations and the handlers that use them *)

\* <ButtonInterval intervals={[5, 10]} ... />
intervals == <<5, 10>>

\* the values a prompt is confirmed with
PromptValues == 0..MaxPromptValue

\* the items the creation form submits
CreateInputs == {[item_name |-> NameVec, bought |-> Some(10)],
                 [item_name |-> NameBra, bought |-> None]}

\* the request objects handed to the remote API
CreateRequest(item) == [kind |-> "create", data |-> item]
UpdateMinimumPrice(id, v) ==
    [kind |-> "update",
     data |-> [minimum_price |-> Some(v), is_hidden |-> None, id |-> id]]
UpdateHidden(id, b) ==
    [kind |-> "update",
     data |-> [minimum_price |-> None, is_hidden |-> Some(b), id |-> id]]
SellRequest(id, price, quantity) ==
    [kind |-> "sell", data |-> [id |-> id, price |-> price, quantity |-> quantity]]
DeleteRequest(id) == [kind |-> "delete", data |-> [id |-> id]]

\* useMutation(...).isPending of the mutation of one kind
isPending(k) == \E i \in DOMAIN inflight : inflight[i].kind = k

\* busy without the delete mutation
busyWithoutDelete ==
    isPending("create") \/ isPending("update") \/ isPending("sell")

\* createStockMutation.isPending || updateStockMutation.isPending ||
\* sellStockMutation.isPending || deleteStockMutation.isPending
busy ==
    isPending("create") \/ isPending("update") \/ isPending("sell") \/ isPending("delete")

\* <CreateStockItemForm disabled={...} />
disabled == busy

\* <DataTable fetching={...} />
fetching == busy

\* a modal is open: it blocks the page behind it until it is closed
ModalOpen == modal.kind # "none"

\* the creation form takes a submit: not disabled, not behind a modal
FormEnabled == ~disabled /\ ~ModalOpen

\* the table takes a click: not covered by the fetching overlay or a modal
TableEnabled == ~fetching /\ ~ModalOpen

\* mutation.mutate(request) / mutation.mutateAsync(request): the remote call goes out
mutate(request) ==
    /\ inflight' = Append(inflight, request)
    /\ called' = <<request>>
    /\ notified' = <<>>

\* a handler that returns before doing anything
Return ==
    /\ called' = <<>>
    /\ notified' = <<>>
    /\ UNCHANGED inflight

\* onSuccess of the mutation of the request's kind: the green notification
onSuccess(request) ==
    notified' = <<[title |-> "success." \o request.kind \o "_stock", color |-> "green.7"]>>

\* onError that shows the success notification
onErrorShowsSuccess(request) ==
    notified' = <<[title |-> "success." \o request.kind \o "_stock", color |-> "green.7"]>>

\* onError of the mutation of the request's kind: the red notification
onError(request) ==
    notified' = <<[title |-> "errors." \o request.kind \o "_stock", color |-> "red.7"]>>

\* the sequence s without its i-th element
RemoveAt(s, i) == SubSeq(s, 1, i - 1) \o SubSeq(s, i + 1, Len(s))

\* the remote call of inflight[i] resolves
Resolve(i) ==
    /\ i \in DOMAIN inflight
    /\ inflight' = RemoveAt(inflight, i)
    /\ onSuccess(inflight[i])
    /\ called' = <<>>
    /\ UNCHANGED <<items, viewVars, segments, modal>>

\* the remote call of inflight[i] is rejected
Reject(i) ==
    /\ i \in DOMAIN inflight
    /\ inflight' = RemoveAt(inflight, i)
    /\ onError(inflight[i])
    /\ called' = <<>>
    /\ UNCHANGED <<items, viewVars, segments, modal>>

\* <CreateStockItemForm onSubmit={async (item) => createStockMutation.mutate(item)} />
SubmitCreate(item) ==
    /\ FormEnabled
    /\ mutate(CreateRequest(item))
    /\ UNCHANGED <<items, viewVars, segments, modal>>

\* QuickDecrement without the check against going below zero
QuickDecrementUnchecked(k, int) ==
    /\ TableEnabled
    /\ k \in DOMAIN rows
    /\ LET id == rows[k].id
           minimum_price == OrZero(rows[k].minimum_price)
       IN  IF id = 0 THEN Return
           ELSE mutate(UpdateMinimumPrice(id, minimum_price - int))
    /\ UNCHANGED <<items, viewVars, segments, modal>>

\* ButtonInterval prefix="-": lines 287-292, on row k with interval int
QuickDecrement(k, int) ==
    /\ TableEnabled
    /\ k \in DOMAIN rows
    /\ LET id == rows[k].id
           minimum_price == OrZero(rows[k].minimum_price)
       IN  IF id = 0 THEN Return
           ELSE IF minimum_price - int < 0 THEN Return
           ELSE mutate(UpdateMinimumPrice(id, minimum_price - int))
    /\ UNCHANGED <<items, viewVars, segments, modal>>

\* ButtonInterval prefix="+": lines 293-297
QuickIncrement(k, int) ==
    /\ TableEnabled
    /\ k \in DOMAIN rows
    /\ LET id == rows[k].id
           minimum_price == OrZero(rows[k].minimum_price)
       IN  IF id = 0 THEN Return
           ELSE mutate(UpdateMinimumPrice(id, minimum_price + int))
    /\ UNCHANGED <<items, viewVars, segments, modal>>

\* OpenMinimumPriceModal(id, minimum_price): lines 145-170
OpenMinimumPriceModal(id, minimum_price) ==
    modal' = [id |-> id, kind |-> "minimum_price", value |-> minimum_price]

\* OpenSellModal(id): lines 172-196
OpenSellModal(id) ==
    modal' = [id |-> id, kind |-> "sell", value |-> 0]

\* the edit button of the minimum_price column: lines 299-303
ClickEditMinimumPrice(k) ==
    /\ TableEnabled
    /\ k \in DOMAIN rows
    /\ IF rows[k].id = 0 THEN UNCHANGED modal
       ELSE OpenMinimumPriceModal(rows[k].id, OrZero(rows[k].minimum_price))
    /\ Return
    /\ UNCHANGED <<items, viewVars, segments>>

\* the sell_manual button: lines 326-329
ClickSellManual(k) ==
    /\ TableEnabled
    /\ k \in DOMAIN rows
    /\ OpenSellModal(rows[k].id)
    /\ Return
    /\ UNCHANGED <<items, viewVars, segments>>

\* ClickSellAuto without the check of the row's id
ClickSellAutoUnchecked(k) ==
    /\ TableEnabled
    /\ k \in DOMAIN rows
    /\ ~Falsy(rows[k].list_price)
    /\ IF Falsy(rows[k].list_price) THEN Return
       ELSE mutate(SellRequest(rows[k].id, Get(rows[k].list_price), 1))
    /\ UNCHANGED <<items, viewVars, segments, modal>>

\* the sell_auto button, disabled={!row.list_price}: lines 334-338
ClickSellAuto(k) ==
    /\ TableEnabled
    /\ k \in DOMAIN rows
    /\ ~Falsy(rows[k].list_price)
    /\ IF rows[k].id = 0 \/ Falsy(rows[k].list_price) THEN Return
       ELSE mutate(SellRequest(rows[k].id, Get(rows[k].list_price), 1))
    /\ UNCHANGED <<items, viewVars, segments, modal>>

\* the hide button: lines 343-346
ClickHide(k) ==
    /\ TableEnabled
    /\ k \in DOMAIN rows
    /\ mutate(UpdateHidden(rows[k].id, ~rows[k].is_hidden))
    /\ UNCHANGED <<items, viewVars, segments, modal>>

\* the info button: lines 351-354, OpenInfoModal(row)
ClickInfo(k) ==
    /\ TableEnabled
    /\ k \in DOMAIN rows
    /\ modal' = [id |-> rows[k].id, kind |-> "info"]
    /\ Return
    /\ UNCHANGED <<items, viewVars, segments>>

\* the delete button: lines 359-362
ClickDelete(k) ==
    /\ TableEnabled
    /\ k \in DOMAIN rows
    /\ mutate(DeleteRequest(rows[k].id))
    /\ UNCHANGED <<items, viewVars, segments, modal>>

\* onCellClick on the item_name column: the name is copied and announced
ClickNameCell(k) ==
    /\ TableEnabled
    /\ k \in DOMAIN rows
    /\ notified' = <<[title |-> "notifications.copied", color |-> "green.7"]>>
    /\ called' = <<>>
    /\ UNCHANGED <<items, viewVars, segments, inflight, modal>>

\* onConfirm of the open prompt with the entered value: lines 162-166, 188-192
onConfirm(v) ==
    IF modal.id = 0 THEN Return
    ELSE IF modal.kind = "minimum_price" THEN mutate(UpdateMinimumPrice(modal.id, v))
    ELSE mutate(SellRequest(modal.id, v, 1))

\* onCancel that closes the prompt and submits the value it was opened with
onCancelSubmits ==
    /\ modal' = [kind |-> "none"]
    /\ onConfirm(modal.value)

\* onCancel: (id) => modals.close(id)
onCancel ==
    /\ modal' = [kind |-> "none"]
    /\ Return

\* the prompt is confirmed with a value: it closes and hands the value to onConfirm
PromptConfirm(v) ==
    /\ modal.kind \in {"minimum_price", "sell"}
    /\ modal' = [kind |-> "none"]
    /\ onConfirm(v)
    /\ UNCHANGED <<items, viewVars, segments>>

\* the prompt is cancelled
PromptCancel ==
    /\ modal.kind \in {"minimum_price", "sell"}
    /\ onCancel
    /\ UNCHANGED <<items, viewVars, segments>>

\* the info modal is closed
CloseInfo ==
    /\ modal.kind = "info"
    /\ modal' = [kind |-> "none"]
    /\ Return
    /\ UNCHANGED <<items, viewVars, segments>>

\* the stock context supplies a new item collection while the panel is in use
ItemsRefreshed ==
    \E c \in Collections(MaxMutationItems) :
        /\ items' = Some(c)
        /\ UNCHANGED <<page, pageSize, sortStatus, query, filterStatus>>
        /\ RowsEffect
        /\ StatsEffect
        /\ Quiet

NextMutations ==
    \/ ItemsRefreshed
    \/ \E item \in CreateInputs : SubmitCreate(item)
    \/ \E k \in DOMAIN rows, n \in DOMAIN intervals : QuickDecrement(k, intervals[n])
    \/ \E k \in DOMAIN rows, n \in DOMAIN intervals : QuickIncrement(k, intervals[n])
    \/ \E k \in DOMAIN rows : ClickEditMinimumPrice(k)
    \/ \E k \in DOMAIN rows : ClickSellManual(k)
    \/ \E k \in DOMAIN rows : ClickSellAuto(k)
    \/ \E k \in DOMAIN rows : ClickHide(k)
    \/ \E k \in DOMAIN rows : ClickInfo(k)
    \/ \E k \in DOMAIN rows : ClickDelete(k)
    \/ \E k \in DOMAIN rows : ClickNameCell(k)
    \/ \E v \in PromptValues : PromptConfirm(v)
    \/ PromptCancel
    \/ CloseInfo
    \/ \E i \in DOMAIN inflight : Resolve(i)
    \/ \E i \in DOMAIN inflight : Reject(i)

\* the mutation coordinator
SpecMutations == Init /\ [][NextMutations]_vars

-----------------------------------------------------------------------------
(* Properties of the view pipeline and the aggregator *)

\* the letter c with its case folded
FoldCase(c) == IF c \in 65..90 THEN c + 32 ELSE c

\* name contains q, case ignored
ContainsIgnoreCase(name, q) ==
    \E k \in 0..(Len(name) - Len(q)) :
        \A j \in 1..Len(q) : FoldCase(name[k + j]) = FoldCase(q[j])

\* the item passes the current query and status filter
Matches(item) ==
    /\ query = <<>> \/ ContainsIgnoreCase(item.item_name, query)
    /\ filterStatus = Unset \/ item.status = filterStatus

\* how often x occurs in the sequence s
Occurrences(s, x) == Cardinality({i \in DOMAIN s : s[i] = x})

Max(a, b) == IF a > b THEN a ELSE b

RECURSIVE ConcatPages(_, _)
\* the rows of pages 1..n of the current view, one after the other
ConcatPages(its, n) ==
    IF n = 0 THEN <<>>
    ELSE ConcatPages(its, n - 1) \o
         UpdateDatabaseRows(its, query, filterStatus, sortStatus, n, pageSize).rows

\* C2: the profit segment is max(listed - bought, 0) when listed > 0 and 0
\* otherwise, with bought = sum of (bought or 0) * owned and listed = sum of
\* (list_price or 0) * owned; it is never negative.
C2_ProfitIsClampedDifference ==
    items # None =>
        LET its    == Get(items)
            bought == SumSeq([i \in 1..Len(its) |->
                                OrZero(its[i].bought) * its[i].owned])
            listed == SumSeq([i \in 1..Len(its) |->
                                OrZero(its[i].list_price) * its[i].owned])
        IN  /\ segments[1].count = bought
            /\ segments[2].count = listed
            /\ segments[3].count = IF listed > 0 THEN Max(listed - bought, 0) ELSE 0
            /\ segments[3].count >= 0

\* C3: the displayed rows are the slice [(page-1)*pageSize, page*pageSize) of
\* the filtered and sorted set, at most pageSize long; pages
\* 1..ceil(totalRecords/pageSize) together hold every filtered item exactly
\* once, in sorted order; a page past the end is empty.
C3_PagesPartitionSortedFiltered ==
    items # None =>
        LET its    == Get(items)
            sortBy == [field |-> sortStatus.columnAccessor,
                       direction |-> sortStatus.direction]
            nPages == (totalRecords + pageSize - 1) \div pageSize
            all    == ConcatPages(its, nPages)
            first  == (page - 1) * pageSize
        IN  /\ Len(rows) <= pageSize
            /\ Len(all) = Cardinality({i \in DOMAIN its : Matches(its[i])})
            /\ \A i \in DOMAIN its :
                   Occurrences(all, its[i]) =
                       IF Matches(its[i]) THEN Occurrences(its, its[i]) ELSE 0
            /\ \A i, j \in DOMAIN all : i < j => ~Before(all[j], all[i], sortBy)
            /\ Len(rows) = Max(0, Min(pageSize, Len(all) - first))
            /\ \A k \in DOMAIN rows : rows[k] = all[first + k]
            /\ page > nPages => rows = <<>>

C3_Witness ==
    /\ items # None
    /\ page = 2
    /\ query # <<>>
    /\ sortStatus.columnAccessor = "bought"
    /\ totalRecords > pageSize
    /\ Len(rows) = totalRecords - pageSize
    /\ totalRecords < Len(Get(items))

\* C4: totalRecords is the number of items whose name contains the query,
\* case ignored, and whose status equals the status filter (every item when
\* the query is empty, every status when the filter is unset); a change of
\* page or page size alone leaves it as it is.
C4_TotalRecordsCountsMatches ==
    /\ [](items # None =>
            totalRecords =
                Cardinality({i \in DOMAIN Get(items) : Matches(Get(items)[i])}))
    /\ [][(SetPage \/ SetPageSize) => totalRecords' = totalRecords]_vars

C4_Witness ==
    /\ items # None
    /\ query # <<>>
    /\ filterStatus # Unset
    /\ page = 2
    /\ pageSize = 5
    /\ totalRecords > 0
    /\ totalRecords < Len(Get(items))

\* C5: when bought + listed + profit > 0, the three shares (value / (bought +
\* listed + profit) * 100) add up to 100: all three have the sum of the three
\* values as their denominator.
C5_SharesSumToHundred ==
    (segments # <<>> /\
     segments[1].count + segments[2].count + segments[3].count > 0) =>
        LET total == segments[1].count + segments[2].count + segments[3].count
        IN  /\ \A k \in 1..3 : /\ segments[k].part.den = total
                               /\ segments[k].part.num = segments[k].count * 100
            /\ segments[1].part.num + segments[2].part.num + segments[3].part.num
                   = 100 * total

C5_Witness ==
    /\ segments # <<>>
    /\ \A k \in 1..3 : segments[k].count > 0
    /\ segments[1].part.den > 0

\* C6: once the item collection is present, statusCount has an entry for every
\* status (zero for a status no item has), the entries add up to the size of
\* the unfiltered collection, and they do not depend on query, status filter,
\* sort, page or page size.
C6_StatusCountOverUnfiltered ==
    items # None =>
        LET its == Get(items)
        IN  /\ DOMAIN statusCount = StockStatus
            /\ \A s \in StockStatus :
                   statusCount[s] = Cardinality({i \in DOMAIN its : its[i].status = s})
            /\ Len(its) =
                   statusCount["pending"] + statusCount["live"] + statusCount["inactive"]

C6_Witness ==
    /\ items # None
    /\ query # <<>>
    /\ filterStatus # Unset
    /\ totalRecords < Len(Get(items))
    /\ \E s \in StockStatus : statusCount[s] = 0
    /\ \E s \in StockStatus : statusCount[s] > 1

\* C7: a click on a status sets the filter to it, unless it is the active one,
\* which the click unsets; so two clicks on the same status, starting unset,
\* lead back to the unfiltered view with the same totalRecords and rows.
C7_StatusClickToggles ==
    [][\A status \in StockStatus :
          ClickStatus(status) =>
              /\ filterStatus' = IF filterStatus = status THEN Unset ELSE status
              /\ (filterStatus = Unset /\ items # None) =>
                    LET again == ToggleFilterStatus(filterStatus', status)
                        r == UpdateDatabaseRows(Get(items'), query', again,
                                                sortStatus', page', pageSize')
                    IN  /\ again = Unset
                        /\ r.rows = rows
                        /\ r.totalRecords = totalRecords]_vars

C7_Witness ==
    /\ items # None
    /\ filterStatus # Unset
    /\ rows # <<>>
    /\ totalRecords < Len(Get(items))

\* the last page that holds a row of the current view
LastPage == (totalRecords + pageSize - 1) \div pageSize

\* C11: only the table's page-change event changes the page number; a change
\* of the query, the status filter, the sort, the page size or the item
\* collection leaves it as it is, also when it then lies past the last page.
C11_OnlyPageChangeMovesPage ==
    [][/\ (\/ items' # items
           \/ query' # query
           \/ filterStatus' # filterStatus
           \/ sortStatus' # sortStatus
           \/ pageSize' # pageSize) => page' = page
       /\ page' # page =>
              /\ UNCHANGED <<items, pageSize, sortStatus, query, filterStatus>>
              /\ totalRecords' = totalRecords]_vars

C11_Witness ==
    /\ items # None
    /\ query # <<>>
    /\ totalRecords > 0
    /\ page > LastPage
    /\ rows = <<>>

-----------------------------------------------------------------------------
(* Properties of the mutation coordinator *)

\* C1: while busy (a create, update, sell or delete is in flight) the row
\* actions and the creation form submit nothing: no remote call is issued
\* while another one is pending.
C1_NoMutationWhileBusy ==
    /\ [](Len(inflight) <= 1)
    /\ [][called' # <<>> =>
            /\ ~busy
            /\ ~isPending("create") /\ ~isPending("update")
            /\ ~isPending("sell") /\ ~isPending("delete")
            /\ inflight = <<>>
            /\ inflight' = called']_vars

C1_Witness ==
    /\ busy
    /\ isPending("delete")
    /\ called = <<>>
    /\ rows # <<>>

\* C8: a quick decrement by d issues an update only when (minimum_price or 0)
\* - d >= 0, and otherwise issues no call and shows no notification; every
\* update issued by the quick buttons carries the current minimum_price
\* (absent: 0) plus or minus d, which is >= 0.
C8_QuickDecrementNeverBelowZero ==
    [][\A k \in DOMAIN rows, n \in DOMAIN intervals :
          LET d       == intervals[n]
              current == OrZero(rows[k].minimum_price)
          IN  /\ QuickDecrement(k, d) =>
                    IF rows[k].id # 0 /\ current - d >= 0
                    THEN /\ called' = <<UpdateMinimumPrice(rows[k].id, current - d)>>
                         /\ Get(called'[1].data.minimum_price) >= 0
                    ELSE /\ called' = <<>>
                         /\ notified' = <<>>
                         /\ inflight' = inflight
              /\ QuickIncrement(k, d) =>
                    IF rows[k].id # 0
                    THEN /\ called' = <<UpdateMinimumPrice(rows[k].id, current + d)>>
                         /\ Get(called'[1].data.minimum_price) >= 0
                    ELSE called' = <<>>]_vars

C8_Witness ==
    /\ Len(called) = 1
    /\ called[1].kind = "update"
    /\ \E k \in DOMAIN rows :
          /\ rows[k].id = called[1].data.id
          /\ called[1].data.minimum_price = Some(OrZero(rows[k].minimum_price) - 5)
          /\ OrZero(rows[k].minimum_price) - 10 < 0

\* C9: a rejected create, update, sell or delete ends with exactly one failure
\* notification and no success notification; the call is not issued again,
\* and the item collection is left as it is.
C9_RejectionNotifiesOnceNoRetry ==
    [][\A i \in DOMAIN inflight :
          Reject(i) =>
              /\ notified' = <<[title |-> "errors." \o inflight[i].kind \o "_stock",
                                color |-> "red.7"]>>
              /\ called' = <<>>
              /\ Len(inflight') = Len(inflight) - 1
              /\ items' = items
              /\ rows' = rows
              /\ totalRecords' = totalRecords]_vars

C9_Witness ==
    /\ notified = <<[title |-> "errors.delete_stock", color |-> "red.7"]>>
    /\ inflight = <<>>
    /\ called = <<>>
    /\ items # None
    /\ rows # <<>>

\* C10: in the minimum-price edit flow and the manual sell flow the update
\* (the sell) is issued only when the prompt is confirmed with a value;
\* opening the prompt and cancelling it issue no call, show no notification
\* and leave the in-flight mutations as they are.
C10_PromptIssuesOnlyOnConfirm ==
    [][/\ PromptCancel =>
            /\ called' = <<>>
            /\ notified' = <<>>
            /\ inflight' = inflight
            /\ modal'.kind = "none"
       /\ \A k \in DOMAIN rows :
            (ClickEditMinimumPrice(k) \/ ClickSellManual(k)) =>
                /\ called' = <<>>
                /\ notified' = <<>>
                /\ inflight' = inflight
       /\ (modal.kind \in {"minimum_price", "sell"} /\ called' # <<>>) =>
            \E v \in PromptValues :
                /\ PromptConfirm(v)
                /\ called' = <<IF modal.kind = "minimum_price"
                               THEN UpdateMinimumPrice(modal.id, v)
                               ELSE SellRequest(modal.id, v, 1)>>]_vars

C10_Witness ==
    /\ modal.kind = "sell"
    /\ modal.id # 0
    /\ inflight = <<>>
    /\ called = <<>>
    /\ notified = <<>>

\* C12: every sell request has quantity 1; the auto-sell action issues a sell
\* only for a row with a non-zero id and a non-zero list_price, at that
\* list_price; the manual sell flow issues a sell only for a non-zero id, at
\* the price entered in the prompt.
C12_SellRequestsAreSingleUnit ==
    [][/\ \A k \in DOMAIN rows :
            ClickSellAuto(k) =>
                IF rows[k].id # 0 /\ ~Falsy(rows[k].list_price)
                THEN called' = <<SellRequest(rows[k].id, Get(rows[k].list_price), 1)>>
                ELSE called' = <<>> /\ inflight' = inflight
       /\ (called' # <<>> /\ called'[1].kind = "sell") =>
            LET sell == called'[1].data
            IN  /\ Len(called') = 1
                /\ sell.quantity = 1
                /\ sell.id # 0
                /\ IF modal.kind = "sell"
                   THEN /\ sell.id = modal.id
                        /\ \E v \in PromptValues : sell.price = v /\ PromptConfirm(v)
                   ELSE \E k \in DOMAIN rows :
                            /\ ClickSellAuto(k)
                            /\ rows[k].id = sell.id
                            /\ rows[k].list_price = Some(sell.price)
                            /\ sell.price # 0]_vars

C12_Witness ==
    /\ Len(called) = 1
    /\ called[1].kind = "sell"
    /\ called[1].data.quantity = 1
    /\ modal.kind = "none"
    /\ \E k \in DOMAIN rows :
          /\ rows[k].id = called[1].data.id
          /\ rows[k].list_price = Some(called[1].data.price)
          /\ called[1].data.price > MaxPromptValue

=============================================================================
